---- MODULE Spec2Model ----
(***************************************************************************)
(* Model of the research-assistant agent core (app/agent.py): the          *)
(* hardening pre-pass, the shape coercer, the schema validator and the     *)
(* validate/retry loop of run_topic_agent and run_pdf_agent.               *)
(*                                                                         *)
(* JSON-like values are records [k |-> kind, ...] with one slot per kind   *)
(* of payload: null, bool (slot b), int (slot n), float (slot n, in        *)
(* tenths), inf (slot n, the sign), nan, str (slot s), list (slot q, a     *)
(* sequence) and dict (slot f, a function from key strings to values).     *)
(* A str built by formatting is of kind "text": slot s holds its fixed     *)
(* prefix and slot q the parts joined after it.  A raised exception is     *)
(* the value of kind "raise" whose slot s is the exception name.           *)
(***************************************************************************)
EXTENDS Integers, Sequences, FiniteSets, TLC

VARIABLES pc, mode, subject, trace_id, papers, prompt, sent, attempt, calls,
          raw, out, ok, errs, verdicts, last_errors, trace

vars == <<pc, mode, subject, trace_id, papers, prompt, sent, attempt, calls,
          raw, out, ok, errs, verdicts, last_errors, trace>>

(***************************************************************************)
(* Values                                                                  *)
(***************************************************************************)
\* every value carries every slot, so that any two values can be compared:
\* s a string, n an integer, b a boolean, q a sequence, f a function of keys
Blank == [k |-> "null", s |-> "", n |-> 0, b |-> FALSE, q |-> <<>>, f |-> <<>>]
Null == Blank
Bool(b) == [Blank EXCEPT !.k = "bool", !.b = b]
IntV(n) == [Blank EXCEPT !.k = "int", !.n = n]
FloatV(t) == [Blank EXCEPT !.k = "float", !.n = t]
Inf(sign) == [Blank EXCEPT !.k = "inf", !.n = sign]
NaN == [Blank EXCEPT !.k = "nan"]
Str(s) == [Blank EXCEPT !.k = "str", !.s = s]
Text(prefix, parts) == [Blank EXCEPT !.k = "text", !.s = prefix, !.q = parts]
List(q) == [Blank EXCEPT !.k = "list", !.q = q]
Dict(f) == [Blank EXCEPT !.k = "dict", !.f = f]
Raise(e) == [Blank EXCEPT !.k = "raise", !.s = e]
EmptyDict == Dict(<<>>)
EmptyList == List(<<>>)

IsStr(x) == x.k \in {"str", "text"}
IsList(x) == x.k = "list"
IsDict(x) == x.k = "dict"
IsBool(x) == x.k = "bool"
IsRaise(x) == x.k = "raise"
\* isinstance(x, (int, float)): bool is a subclass of int
IsNumber(x) == x.k \in {"int", "bool", "float", "inf", "nan"}

\* dict primitives: key in d, d.get(key), d.get(key, default), d[key] = val,
\* d.setdefault(key, val)
Has(d, key) == key \in DOMAIN d.f
Get(d, key) == IF key \in DOMAIN d.f THEN d.f[key] ELSE Null
GetD(d, key, default) == IF key \in DOMAIN d.f THEN d.f[key] ELSE default
Put(d, key, val) ==
    Dict([s \in (DOMAIN d.f) \cup {key} |-> IF s = key THEN val ELSE d.f[s]])
SetDefault(d, key, val) == IF key \in DOMAIN d.f THEN d ELSE Put(d, key, val)

\* sequence primitives: s[:n], padding by append, comprehension with a filter
Min(a, b) == IF a < b THEN a ELSE b
Take(s, n) == SubSeq(s, 1, Min(n, Len(s)))
PadTo(s, n, x) == s \o [i \in 1..(IF Len(s) < n THEN n - Len(s) ELSE 0) |-> x]
Rep(x, n) == [i \in 1..n |-> x]
RECURSIVE OnlyDicts(_)
OnlyDicts(s) ==
    IF s = <<>> THEN <<>>
    ELSE (IF IsDict(Head(s)) THEN <<Head(s)>> ELSE <<>>) \o OnlyDicts(Tail(s))

\* Python truthiness of a value (the `or` fallbacks)
Truthy(x) ==
    CASE x.k = "null" -> FALSE
      [] x.k = "bool" -> x.b
      [] x.k \in {"int", "float"} -> x.n # 0
      [] x.k = "str" -> x.s # ""
      [] x.k = "text" -> TRUE
      [] x.k = "list" -> x.q # <<>>
      [] x.k = "dict" -> DOMAIN x.f # {}
      [] OTHER -> TRUE

\* str(x): a string is itself; the text of any other value is never one of
\* the priority words, whatever its case
PyStr(x) ==
    CASE x.k = "str" -> x.s
      [] x.k = "null" -> "None"
      [] x.k = "bool" -> IF x.b THEN "True" ELSE "False"
      [] x.k = "text" -> "<text>"
      [] OTHER -> "<repr>"

\* s.lower() on the strings the model uses
LowerTable ==
    [s \in {"HIGH", "High", "Medium", "LOW", "None", "True", "False"} |->
        CASE s \in {"HIGH", "High"} -> "high"
          [] s = "Medium" -> "medium"
          [] s = "LOW" -> "low"
          [] s = "None" -> "none"
          [] s = "True" -> "true"
          [] s = "False" -> "false"]
Lower(s) == IF s \in DOMAIN LowerTable THEN LowerTable[s] ELSE s

\* s.isdigit() and int(s) on the strings the model uses.  "U+00B2" stands
\* for the one-character string SUPERSCRIPT TWO: isdigit() accepts it and
\* int() rejects it.
DigitStrings == {"2020", "1999", "0", "U+00B2"}
DecimalValue == [s \in {"2020", "1999", "0"} |->
                    CASE s = "2020" -> 2020 [] s = "1999" -> 1999 [] s = "0" -> 0]
IsDigit(s) == s \in DigitStrings

\* int(y) for a number or a string
PyInt(y) ==
    CASE y.k = "int" -> IntV(y.n)
      [] y.k = "bool" -> IntV(IF y.b THEN 1 ELSE 0)
      [] y.k = "float" -> IntV(IF y.n >= 0 THEN y.n \div 10 ELSE -((-y.n) \div 10))
      [] y.k = "inf" -> Raise("OverflowError")
      [] y.k = "nan" -> Raise("ValueError")
      [] y.k = "str" -> IF y.s \in DOMAIN DecimalValue
                          THEN IntV(DecimalValue[y.s]) ELSE Raise("ValueError")
      [] OTHER -> Raise("TypeError")

\* y >= 0 for a number
PyGE0(y) ==
    CASE y.k \in {"int", "float", "inf"} -> y.n >= 0
      [] y.k = "bool" -> TRUE
      [] OTHER -> FALSE

(***************************************************************************)
(* Hardening pre-pass                                                      *)
(***************************************************************************)
_force_dict(obj) == IF IsDict(obj) THEN obj ELSE EmptyDict

\* out["trace_id"] = trace_id
\* variant of HardenTraceId: setdefault, so a supplied trace_id survives
HardenTraceIdUnlessSupplied(o, tid) == SetDefault(o, "trace_id", Str(tid))
HardenTraceId(o, tid) == Put(o, "trace_id", Str(tid))

\* input must be dict; an existing one only gets its missing keys filled
HardenInput(o, m, topic, pdf_name) ==
    LET inp == Get(o, "input")
        idkey == IF m = "topic" THEN "topic" ELSE "pdf_name"
        idval == IF m = "topic" THEN topic ELSE pdf_name
    IN  IF ~IsDict(inp)
        THEN Put(o, "input",
                 Put(Put(EmptyDict, "mode", Str(IF m = "topic" THEN "topic" ELSE "pdf")),
                     idkey, Str(idval)))
        ELSE Put(o, "input",
                 SetDefault(SetDefault(inp, "mode", Str(m)), idkey, Str(idval)))

\* quality must be dict and quality.self_checks a list
HardenQuality(o) ==
    LET o1 == IF ~IsDict(Get(o, "quality")) THEN Put(o, "quality", EmptyDict) ELSE o
        q1 == SetDefault(Get(o1, "quality"), "self_checks", EmptyList)
        q2 == IF ~IsList(Get(q1, "self_checks"))
              THEN Put(q1, "self_checks", EmptyList) ELSE q1
    IN  Put(o1, "quality", q2)

_ensure_output_hardened(o, tid, m, topic, pdf_name) ==
    HardenQuality(HardenInput(HardenTraceId(_force_dict(o), tid), m, topic, pdf_name))

(***************************************************************************)
(* Shape coercer                                                           *)
(***************************************************************************)
Priorities == {"high", "medium", "low"}
PadAction ==
    Dict([action |-> Str("Define next action item"), priority |-> Str("low")])
PadStep ==
    Dict([task |-> Str("Add missing reproduction step"),
          why |-> Str("Required to reproduce results")])
Sentinel ==
    Dict([title |-> Str("Additional related work needed"), year |-> IntV(0),
          url |-> Str(""), key_contribution |-> Str("Not provided."),
          relevance_reason |-> Str("")])
NoContribution == Str("Key contribution not provided.")

AllStr(s) == \A i \in DOMAIN s : IsStr(s[i])
AllDict(s) == \A i \in DOMAIN s : IsDict(s[i])

\* 1) promote fields placed under input.* to the top level
PromoteKey(o, key) ==
    LET inp == Get(o, "input")
    IN  IF IsDict(inp) /\ ~Has(o, key) /\ Has(inp, key)
        THEN Put(o, key, Get(inp, key)) ELSE o
Promote(o) ==
    PromoteKey(PromoteKey(PromoteKey(o, "reproduction_checklist"),
                          "action_items"), "related_works")

\* 2) action_items
\* variant of NormAction: the priority is kept as supplied
NormActionKeepPriority(item) ==
    SetDefault(SetDefault(item, "action", Str("Define next action item")),
               "priority", Str("medium"))
NormAction(item) ==
    LET it == SetDefault(item, "action", Str("Define next action item"))
        pr == Lower(PyStr(GetD(it, "priority", Str("medium"))))
    IN  Put(it, "priority", Str(IF pr \in Priorities THEN pr ELSE "medium"))

CoerceActionItems(o) ==
    LET ai0 == Get(o, "action_items")
        ai == IF IsStr(ai0) THEN List(<<ai0>>) ELSE ai0
        o1 == IF IsStr(ai0) THEN Put(o, "action_items", ai) ELSE o
        o2 == IF IsList(ai) /\ (Len(ai.q) = 0 \/ AllStr(ai.q))
              THEN LET head == Take(ai.q, 5)
                       fixed == [i \in 1..Len(head) |->
                                   Dict([action |-> head[i],
                                         priority |-> Str("medium")])]
                   IN  Put(o1, "action_items", List(Take(PadTo(fixed, 5, PadAction), 5)))
              ELSE o1
        ai2 == Get(o2, "action_items")
    IN  IF IsList(ai2) /\ AllDict(ai2.q)
        THEN LET head == Take(ai2.q, 5)
                 fixed2 == [i \in 1..Len(head) |-> NormAction(head[i])]
             IN  Put(o2, "action_items", List(Take(PadTo(fixed2, 5, PadAction), 5)))
        ELSE o2

\* 3) reproduction_checklist
NormStep(item) ==
    SetDefault(SetDefault(item, "task", Str("Add reproduction step")),
               "why", Str("Required to reproduce results"))

CoerceChecklist(o) ==
    LET rc0 == Get(o, "reproduction_checklist")
        rc == IF IsStr(rc0) THEN List(<<rc0>>) ELSE rc0
        o1 == IF IsStr(rc0) THEN Put(o, "reproduction_checklist", rc) ELSE o
        o2 == IF IsList(rc) /\ (Len(rc.q) = 0 \/ AllStr(rc.q))
              THEN LET head == Take(rc.q, 10)
                       fixed == [i \in 1..Len(head) |->
                                   Dict([task |-> head[i],
                                         why |-> Str("Required to reproduce results")])]
                   IN  Put(o1, "reproduction_checklist",
                           List(Take(PadTo(fixed, 5, PadStep), 10)))
              ELSE o1
        rc2 == Get(o2, "reproduction_checklist")
    IN  IF IsList(rc2) /\ AllDict(rc2.q)
        THEN LET head == Take(rc2.q, 10)
                 fixed2 == [i \in 1..Len(head) |-> NormStep(head[i])]
             IN  Put(o2, "reproduction_checklist",
                     List(Take(PadTo(fixed2, 5, PadStep), 10)))
        ELSE o2

\* 4) related_works
\* the year rule of the related_works loop
\* variant of YearOfEntry: no y >= 0 test
YearOfEntryNoSignTest(y) ==
    IF IsNumber(y) THEN PyInt(y)
    ELSE IF y.k = "str" /\ IsDigit(y.s) THEN PyInt(y)
    ELSE IntV(0)
YearOfEntry(y) ==
    IF IsNumber(y) /\ PyGE0(y) THEN PyInt(y)
    ELSE IF y.k = "str" /\ IsDigit(y.s) THEN PyInt(y)
    ELSE IntV(0)

\* the year rule of the candidate_papers loop
YearOfCandidate(y) ==
    IF IsNumber(y) THEN PyInt(y)
    ELSE IF y.k = "str" /\ IsDigit(y.s) THEN PyInt(y)
    ELSE IntV(0)

\* one mapping entry of related_works; the value is a raise when int() raises
NormEntry(item) ==
    LET it1 == SetDefault(item, "title", Str("Unknown title"))
        yr == YearOfEntry(GetD(it1, "year", IntV(0)))
        it2 == Put(it1, "year", yr)
        it3 == SetDefault(it2, "url", Str(""))
        rr == GetD(it3, "relevance_reason", Str(""))
        it4 == SetDefault(it3, "key_contribution",
                          IF Truthy(rr) THEN rr ELSE NoContribution)
    IN  IF IsRaise(yr) THEN yr ELSE SetDefault(it4, "relevance_reason", Str(""))

\* one mapping entry of input.candidate_papers
DeriveEntry(p) ==
    LET yr == YearOfCandidate(GetD(p, "year", IntV(0)))
        kc == Get(p, "key_contribution")
    IN  IF IsRaise(yr) THEN yr
        ELSE Dict([title |-> GetD(p, "title", Str("Unknown title")),
                   year |-> yr,
                   url |-> GetD(p, "url", Str("")),
                   key_contribution |-> IF Truthy(kc) THEN kc ELSE NoContribution,
                   relevance_reason |-> GetD(p, "relevance_reason", Str(""))])

\* the first exception a loop over s meets, if any
HasRaise(s) == \E i \in DOMAIN s : IsRaise(s[i])
FirstRaise(s) ==
    s[CHOOSE i \in DOMAIN s : IsRaise(s[i]) /\ \A j \in 1..(i - 1) : ~IsRaise(s[j])]

\* string form, then the list loop over rw[:5]
NormalizeRelatedWorks(o) ==
    LET rw0 == Get(o, "related_works")
        rw == IF IsStr(rw0)
              THEN List(<<Dict([title |-> rw0, year |-> IntV(0), url |-> Str(""),
                                key_contribution |-> NoContribution])>>)
              ELSE rw0
        o1 == IF IsStr(rw0) THEN Put(o, "related_works", rw) ELSE o
    IN  IF IsList(rw)
        THEN LET kept == OnlyDicts(Take(rw.q, 5))
                 fixed_rw == [i \in 1..Len(kept) |-> NormEntry(kept[i])]
             IN  IF HasRaise(fixed_rw) THEN FirstRaise(fixed_rw)
                 ELSE IF fixed_rw # <<>>
                      THEN Put(o1, "related_works", List(Take(fixed_rw, 5)))
                      ELSE o1
        ELSE o1

\* if missing/empty, derive from input.candidate_papers
DeriveFromCandidates(o) ==
    LET rw == Get(o, "related_works")
        inp2 == Get(o, "input")
        cand == IF IsDict(inp2) THEN Get(inp2, "candidate_papers") ELSE Null
    IN  IF (~Has(o, "related_works") \/ ~IsList(rw) \/ Len(rw.q) = 0)
           /\ IsList(cand) /\ Len(cand.q) > 0
        THEN LET kept == OnlyDicts(Take(cand.q, 5))
                 fixed_rw == [i \in 1..Len(kept) |-> DeriveEntry(kept[i])]
             IN  IF HasRaise(fixed_rw) THEN FirstRaise(fixed_rw)
                 ELSE Put(o, "related_works", List(Take(fixed_rw, 5)))
        ELSE o

\* ensure related_works has 3-5 dict items
EnsureRelatedWorks(o) ==
    LET rw3 == IF IsList(Get(o, "related_works")) THEN Get(o, "related_works").q
               ELSE <<>>
    IN  Put(o, "related_works", List(PadTo(Take(OnlyDicts(rw3), 5), 3, Sentinel)))

\* keep input consistent
KeepInput(o, m) ==
    IF ~IsDict(Get(o, "input")) THEN Put(o, "input", Dict([mode |-> Str(m)])) ELSE o

\* a raise in one step ends the function
Then(o, step(_)) == IF IsRaise(o) THEN o ELSE step(o)

_coerce_to_schema_shape(o, m) ==
    LET keep(x) == KeepInput(x, m)
    IN  Then(Then(Then(Then(Then(Then(o, Promote), CoerceActionItems),
                  CoerceChecklist), NormalizeRelatedWorks),
                  DeriveFromCandidates), LAMBDA x : keep(EnsureRelatedWorks(x)))

(***************************************************************************)
(* Quality placeholders before validation                                  *)
(***************************************************************************)
_ensure_quality_required_fields_before_validate(o) ==
    LET q0 == HardenQuality(o)
    IN  Put(q0, "quality", SetDefault(Get(q0, "quality"), "schema_valid", Bool(FALSE)))

(***************************************************************************)
(* Schema (app/schemas.py).  A schema node is a record of the keywords it  *)
(* states; "order" lists the property names in the order the schema        *)
(* writes them.  additionalProperties is True everywhere and states no     *)
(* constraint.                                                             *)
(***************************************************************************)
TString == [type |-> "string"]
TInteger == [type |-> "integer"]

InputSchema ==
    [type |-> "object", required |-> <<"mode">>,
     order |-> <<"mode", "topic", "pdf_name">>,
     properties |-> [mode |-> [type |-> "string", enum |-> {"topic", "pdf"}],
                     topic |-> TString, pdf_name |-> TString]]

RelatedWorkSchema ==
    [type |-> "object",
     required |-> <<"title", "year", "url", "key_contribution">>,
     order |-> <<"title", "year", "venue", "url", "key_contribution",
                 "relevance_reason", "citation">>,
     properties |-> [title |-> TString, year |-> TInteger, venue |-> TString,
                     url |-> TString, key_contribution |-> TString,
                     relevance_reason |-> TString, citation |-> TString]]

EvidenceSchema ==
    [type |-> "object", required |-> <<"page", "span">>,
     order |-> <<"page", "span">>,
     properties |-> [page |-> TInteger, span |-> TString]]

SetupSchema ==
    [type |-> "object", required |-> <<"item", "value", "evidence">>,
     order |-> <<"item", "value", "evidence">>,
     properties |-> [item |-> TString, value |-> TString,
                     evidence |-> EvidenceSchema]]

TargetPaperSchema ==
    [type |-> "object",
     order |-> <<"title", "main_idea", "method", "experiment_setup", "limitations">>,
     properties |-> [title |-> TString, main_idea |-> TString, method |-> TString,
                     experiment_setup |-> [type |-> "array", items |-> SetupSchema],
                     limitations |-> [type |-> "array", items |-> TString]]]

ChecklistItemSchema ==
    [type |-> "object", required |-> <<"task", "why">>,
     order |-> <<"task", "why", "evidence">>,
     properties |-> [task |-> TString, why |-> TString,
                     evidence |-> [type |-> "object", order |-> <<"page", "span">>,
                                   properties |-> [page |-> TInteger,
                                                   span |-> TString]]]]

ActionItemSchema ==
    [type |-> "object", required |-> <<"action", "priority">>,
     order |-> <<"action", "priority", "owner">>,
     properties |-> [action |-> TString,
                     priority |-> [type |-> "string", enum |-> Priorities],
                     owner |-> TString]]

QualitySchema ==
    [type |-> "object", required |-> <<"schema_valid", "self_checks">>,
     order |-> <<"schema_valid", "self_checks", "notes">>,
     properties |-> [schema_valid |-> [type |-> "boolean"],
                     self_checks |-> [type |-> "array", items |-> TString],
                     notes |-> TString]]

OUTPUT_SCHEMA_V1 ==
    [type |-> "object",
     required |-> <<"trace_id", "input", "related_works",
                    "reproduction_checklist", "action_items", "quality">>,
     order |-> <<"trace_id", "input", "related_works", "target_paper",
                 "reproduction_checklist", "action_items", "quality">>,
     properties |->
        [trace_id |-> TString,
         input |-> InputSchema,
         related_works |-> [type |-> "array", minItems |-> 3, maxItems |-> 5,
                            items |-> RelatedWorkSchema],
         target_paper |-> TargetPaperSchema,
         reproduction_checklist |-> [type |-> "array", minItems |-> 5,
                                     maxItems |-> 10,
                                     items |-> ChecklistItemSchema],
         action_items |-> [type |-> "array", minItems |-> 5, maxItems |-> 5,
                           items |-> ActionItemSchema],
         quality |-> QualitySchema]]

(***************************************************************************)
(* Validator (app/tools/json_validate.py over Draft202012Validator)        *)
(***************************************************************************)
\* the type keyword: an integer is an int that is no bool, or a float
\* without a fractional part
IsType(x, t) ==
    CASE t = "string" -> IsStr(x)
      [] t = "boolean" -> x.k = "bool"
      [] t = "array" -> x.k = "list"
      [] t = "object" -> x.k = "dict"
      [] t = "integer" -> x.k = "int" \/ (x.k = "float" /\ x.n % 10 = 0)
      [] OTHER -> FALSE

Err(path, kw, arg) == [path |-> path, kw |-> kw, arg |-> arg]

RECURSIVE iter_errors(_, _, _), PropertyErrors(_, _, _, _), ItemErrors(_, _, _, _)
\* the errors of one node, keyword by keyword in the schema's order, each
\* keyword applying only to the instance types it is about
iter_errors(x, schema, path) ==
    LET has(kw) == kw \in DOMAIN schema
        typeE == IF has("type") /\ ~IsType(x, schema.type)
                 THEN <<Err(path, "type", schema.type)>> ELSE <<>>
        missing == IF has("required") /\ IsDict(x)
                   THEN SelectSeq(schema.required, LAMBDA r : ~Has(x, r)) ELSE <<>>
        reqE == [i \in 1..Len(missing) |-> Err(path, "required", missing[i])]
        minE == IF has("minItems") /\ IsList(x) /\ Len(x.q) < schema.minItems
                THEN <<Err(path, "minItems", "too short")>> ELSE <<>>
        maxE == IF has("maxItems") /\ IsList(x) /\ Len(x.q) > schema.maxItems
                THEN <<Err(path, "maxItems", "too long")>> ELSE <<>>
        enumE == IF has("enum") /\ ~(x.k = "str" /\ x.s \in schema.enum)
                 THEN <<Err(path, "enum", "not one of")>> ELSE <<>>
        propE == IF has("properties") /\ IsDict(x)
                 THEN PropertyErrors(x, schema, path, 1) ELSE <<>>
        itemE == IF has("items") /\ IsList(x)
                 THEN ItemErrors(x, schema.items, path, 1) ELSE <<>>
    IN  typeE \o reqE \o minE \o maxE \o enumE \o propE \o itemE

PropertyErrors(x, schema, path, i) ==
    IF i > Len(schema.order) THEN <<>>
    ELSE LET p == schema.order[i]
         IN  (IF Has(x, p)
              THEN iter_errors(x.f[p], schema.properties[p], Append(path, Str(p)))
              ELSE <<>>) \o PropertyErrors(x, schema, path, i + 1)

ItemErrors(x, items, path, i) ==
    IF i > Len(x.q) THEN <<>>
    ELSE iter_errors(x.q[i], items, Append(path, IntV(i - 1)))
         \o ItemErrors(x, items, path, i + 1)

\* Python's order of the key strings that occur in error paths
KeyOrder ==
    <<"action", "action_items", "citation", "evidence", "experiment_setup",
      "input", "item", "key_contribution", "limitations", "main_idea", "method",
      "mode", "notes", "owner", "page", "pdf_name", "priority", "quality",
      "related_works", "relevance_reason", "reproduction_checklist",
      "schema_valid", "self_checks", "span", "target_paper", "task", "title",
      "topic", "trace_id", "url", "value", "venue", "why", "year">>
KeyRank(s) == CHOOSE i \in DOMAIN KeyOrder : KeyOrder[i] = s

\* a < b for two path elements at the same depth under the same parent:
\* both are keys or both are indices
ElemLess(a, b) == IF IsStr(a) THEN KeyRank(a.s) < KeyRank(b.s) ELSE a.n < b.n

\* deque comparison: lexicographic, a proper prefix is smaller
RECURSIVE PathLess(_, _)
PathLess(p, q) ==
    IF q = <<>> THEN FALSE
    ELSE IF p = <<>> THEN TRUE
    ELSE IF Head(p) = Head(q) THEN PathLess(Tail(p), Tail(q))
    ELSE ElemLess(Head(p), Head(q))

\* sorted(errors, key=lambda e: e.path): stable
RECURSIVE InsertByPath(_, _)
InsertByPath(s, e) ==
    IF s = <<>> THEN <<e>>
    ELSE IF PathLess(e.path, s[Len(s)].path)
         THEN Append(InsertByPath(SubSeq(s, 1, Len(s) - 1), e), s[Len(s)])
         ELSE Append(s, e)
RECURSIVE SortedByPath(_)
SortedByPath(s) ==
    IF s = <<>> THEN <<>>
    ELSE InsertByPath(SortedByPath(SubSeq(s, 1, Len(s) - 1)), s[Len(s)])

\* f"{path}: {e.message}", the root written "<root>"
Message(e) ==
    [path |-> IF e.path = <<>> THEN <<Str("<root>")>> ELSE e.path,
     message |-> <<e.kw, e.arg>>]

MaxCollected == 20
\* variant of validate_json: errors in iteration order, not sorted by path
validate_json_unsorted(payload, schema) ==
    LET errors == iter_errors(payload, schema, <<>>)
    IN  [ok |-> Len(errors) = 0,
         msgs |-> [i \in 1..Min(MaxCollected, Len(errors)) |-> Message(errors[i])]]
validate_json(payload, schema) ==
    LET errors == SortedByPath(iter_errors(payload, schema, <<>>))
    IN  [ok |-> Len(errors) = 0,
         msgs |-> [i \in 1..Min(MaxCollected, Len(errors)) |-> Message(errors[i])]]

(***************************************************************************)
(* Prompts.  A prompt is the sequence of its text blocks.                  *)
(***************************************************************************)
\* text[:1200] on the abstracts the model uses; "LONG" stands for an
\* abstract of more than 1200 characters
Truncate1200(text) == IF text = "LONG" THEN "LONG[:1200]" ELSE text

\* one block of prompt text: the task with its candidate context, or the
\* validation errors with the fix instruction
TaskBlock(m, text, ctx) ==
    [block |-> "task", mode |-> m, subject |-> text, ctx |-> ctx, msgs |-> <<>>]
ErrorsBlock(msgs) ==
    [block |-> "errors then fix", mode |-> "", subject |-> "", ctx |-> <<>>,
     msgs |-> msgs]

_build_topic_user_prompt(topic, ps) ==
    <<TaskBlock("topic", topic,
        [i \in 1..Len(ps) |->
           [title |-> GetD(ps[i], "title", Str("")),
            year |-> GetD(ps[i], "year", IntV(0)),
            url |-> GetD(ps[i], "url", Str("")),
            abstract |->
              LET a == GetD(ps[i], "abstract", Str(""))
              IN  Truncate1200(IF Truthy(a) THEN a.s ELSE "")]])>>

\* pdf_text[:180000]; "LONG" stands for a text of more than 180000 characters
Truncate180000(text) == IF text = "LONG" THEN "LONG[:180000]" ELSE text
BuildPdfPrompt(pdf_text) == <<TaskBlock("pdf", Truncate180000(pdf_text), <<>>)>>

\* prompt + "\n\nVALIDATION ERRORS:\n" + "\n".join(last_errors[:12]) + fix line
MaxEchoed == 12
\* variant of AugmentPrompt: every message is listed, not the first 12
AugmentPromptAll(p, es) == Append(p, ErrorsBlock(es))
AugmentPrompt(p, es) == Append(p, ErrorsBlock(Take(es, MaxEchoed)))

(***************************************************************************)
(* Annotation after validation and the best-effort return                  *)
(***************************************************************************)
\* hashable: everything but a list or a dict
Hashable(x) == x.k \notin {"list", "dict"}

\* the orders list(set(s)) may produce: every arrangement of the distinct
\* elements of s
Range(s) == {s[i] : i \in DOMAIN s}
Arrangements(S) ==
    {q \in [1..Cardinality(S) -> S] : \A i, j \in DOMAIN q : i # j => q[i] # q[j]}

\* out["quality"]["schema_valid"] = ok
\* variant of SetSchemaValid: an existing schema_valid is kept
SetSchemaValidKeep(o, okv) ==
    Put(o, "quality", SetDefault(Get(o, "quality"), "schema_valid", Bool(okv)))
SetSchemaValid(o, okv) ==
    Put(o, "quality", Put(Get(o, "quality"), "schema_valid", Bool(okv)))

\* variant of UnionSelfChecks: the label is appended, nothing is deduplicated
AppendSelfChecks(o) ==
    LET sc == Get(Get(o, "quality"), "self_checks").q \o <<Str("json_schema_v1")>>
    IN  {Put(o, "quality", Put(Get(o, "quality"), "self_checks", List(sc)))}
\* the values out may take after
\*   out["quality"]["self_checks"] = list(set(self_checks + ["json_schema_v1"]))
\* or the TypeError set() raises on an unhashable element
UnionSelfChecks(o) ==
    LET sc == Get(Get(o, "quality"), "self_checks").q \o <<Str("json_schema_v1")>>
    IN  IF \E i \in DOMAIN sc : ~Hashable(sc[i]) THEN {Raise("TypeError")}
        ELSE {Put(o, "quality", Put(Get(o, "quality"), "self_checks", List(q))) :
                 q \in Arrangements(Range(sc))}

\* the best-effort epilogue after the loop
MaxNoted == 8
Notes(es) == Text("Schema validation failed after retries: ", Take(es, MaxNoted))
BestEffortDocument(o, es) ==
    LET o1 == IF ~IsDict(Get(o, "quality")) THEN Put(o, "quality", EmptyDict) ELSE o
        q1 == SetDefault(Get(o1, "quality"), "self_checks", EmptyList)
        q2 == Put(q1, "schema_valid", Bool(FALSE))
    IN  Put(o1, "quality", Put(q2, "notes", Notes(es)))

(***************************************************************************)
(* What the collaborators may hand back                                    *)
(***************************************************************************)
MaxPapers == 1
MaxSteps == 11

TraceIds == {"tid-a", "tid-b"}
Topics == {"llm agents"}
PdfNames == {"paper.pdf"}
PdfTexts == {"[PAGE 1] text", "LONG"}

\* arxiv_search: a list of {title, year, url, abstract} entries
Paper ==
    Dict([title |-> Str("Paper A"), year |-> IntV(2020),
          url |-> Str("http://arxiv.org/abs/1"), abstract |-> Str("LONG")])
PaperLists == {Rep(Paper, n) : n \in 0..MaxPapers}

GoodWork ==
    Dict([title |-> Str("Paper A"), year |-> IntV(2020),
          url |-> Str("http://arxiv.org/abs/1"),
          key_contribution |-> Str("An agent.")])
GoodStep == Dict([task |-> Str("Install deps"), why |-> Str("Needed")])
BadStep == Dict([task |-> IntV(1), why |-> IntV(2)])
GoodAction == Dict([action |-> Str("Run baseline"), priority |-> Str("High")])
BadAction == Dict([action |-> IntV(1)])
GoodQuality == Dict([schema_valid |-> Bool(TRUE), self_checks |-> EmptyList])

\* a well-formed answer of the generator
Good ==
    Dict([trace_id |-> Str("tid-a"),
          input |-> Dict([mode |-> Str("topic"), topic |-> Str("llm agents")]),
          related_works |-> List(Rep(GoodWork, 3)),
          reproduction_checklist |-> List(Rep(GoodStep, 5)),
          action_items |-> List(Rep(GoodAction, 5)),
          quality |-> GoodQuality])

Drop(d, key) == Dict([s \in (DOMAIN d.f) \ {key} |-> d.f[s]])
WithQuality(key, val) == Put(Good, "quality", Put(GoodQuality, key, val))
WithInput(key, val) == Put(Good, "input", Put(Get(Good, "input"), key, val))
WithWorkYear(y) == Put(Good, "related_works", List(Rep(Put(GoodWork, "year", y), 3)))

\* json.loads of the answer: any JSON value, a mapping or not
RawOutputs ==
    {Str("not json object"), Null, EmptyList, EmptyDict, Good}
    \cup {Put(Good, "trace_id", IntV(7)), Drop(Good, "trace_id")}
    \cup {Put(Good, "action_items", Str("Run baseline")),
          Drop(Good, "action_items"),
          Put(Good, "action_items", IntV(42)),
          Put(Good, "action_items", List(Rep(BadAction, 5))),
          Put(Drop(Good, "action_items"), "input",
              Dict([mode |-> Str("topic"), action_items |-> List(<<Str("Do X")>>)]))}
    \cup {Put(Good, "reproduction_checklist", List(Rep(Str("Run eval"), 2))),
          Drop(Good, "reproduction_checklist"),
          Put(Good, "reproduction_checklist",
              List(Rep(Str("Run eval"), 1) \o Rep(GoodStep, MaxSteps))),
          Put(Good, "reproduction_checklist", List(Rep(BadStep, MaxSteps))),
          Put(Put(Good, "reproduction_checklist", List(Rep(BadStep, MaxSteps))),
              "action_items", List(Rep(BadAction, 5)))}
    \cup {Drop(Good, "related_works"),
          Put(Good, "related_works", Str("Some paper")),
          Put(Good, "related_works", List(Rep(IntV(1), 5) \o <<EmptyDict>>)),
          WithWorkYear(Str("2020")), WithWorkYear(FloatV(20205)),
          WithWorkYear(Inf(1)), WithWorkYear(Str("U+00B2")),
          Put(Drop(Good, "related_works"), "input",
              Dict([candidate_papers |-> List(<<Dict([year |-> NaN])>>)])),
          Put(Drop(Good, "related_works"), "input",
              Dict([candidate_papers |-> List(<<Dict([year |-> IntV(-1)])>>)]))}
    \cup {Put(Good, "input", Str("topic")), WithInput("mode", Str("essay")),
          WithInput("mode", IntV(5)), Drop(Good, "input")}
    \cup {Put(Good, "quality", Str("fine")), Drop(Good, "quality"),
          WithQuality("self_checks", Str("all")),
          WithQuality("self_checks", List(<<Str("json_schema_v1"), Str("json_schema_v1")>>)),
          WithQuality("self_checks", List(<<Str("cites_checked")>>)),
          WithQuality("self_checks", List(<<IntV(1)>>)),
          WithQuality("self_checks", List(<<EmptyList>>)),
          WithQuality("self_checks", List(<<Str("cites_checked"), EmptyDict>>)),
          WithQuality("schema_valid", Str("yes")),
          WithQuality("schema_valid", Bool(FALSE)),
          Put(Good, "quality", Dict([self_checks |-> EmptyList])),
          WithQuality("notes", IntV(5))}
    \cup {Put(Good, "target_paper",
              Dict([title |-> Str("Paper A"),
                    experiment_setup |->
                      List(<<Dict([item |-> Str("lr"), value |-> Str("0.1"),
                                   evidence |-> Dict([page |-> Str("3")])])>>)]))}

(***************************************************************************)
(* run_topic_agent and run_pdf_agent, statement by statement               *)
(***************************************************************************)
MaxAttempts == 2

\* one line of the trace file: the event, the attempt it belongs to (0 when
\* it has none), and for "validate" its ok flag and echoed errors
Event(name, n, okv, es) == [event |-> name, attempt |-> n, ok |-> okv, errors |-> es]
write_trace(t, e) == Append(t, e)

Init ==
    /\ pc = "idle"
    /\ mode = "none"
    /\ subject = "none"
    /\ trace_id = "none"
    /\ papers = <<>>
    /\ prompt = <<>>
    /\ sent = <<>>
    /\ attempt = 0
    /\ calls = 0
    /\ raw = Null
    /\ out = EmptyDict
    /\ ok = FALSE
    /\ errs = <<>>
    /\ verdicts = <<>>
    /\ last_errors = <<>>
    /\ trace = <<>>

\* run_topic_agent(topic): new_trace_id(), the start event
StartTopic ==
    /\ pc = "idle"
    /\ \E tid \in TraceIds, topic \in Topics :
          /\ trace_id' = tid
          /\ subject' = topic
    /\ mode' = "topic"
    /\ trace' = write_trace(trace, Event("start", 0, FALSE, <<>>))
    /\ pc' = "search"
    /\ UNCHANGED <<papers, prompt, sent, attempt, calls, raw, out, ok, errs, verdicts,
                   last_errors>>

\* arxiv_search returned: the tool_result event, the prompt, the loop begins
SearchReturns ==
    /\ pc = "search"
    /\ \E ps \in PaperLists :
          /\ papers' = ps
          /\ prompt' = _build_topic_user_prompt(subject, ps)
    /\ trace' = write_trace(trace, Event("tool_result", 0, FALSE, <<>>))
    /\ last_errors' = <<>>
    /\ out' = EmptyDict
    /\ attempt' = 1
    /\ pc' = "loop"
    /\ UNCHANGED <<mode, subject, trace_id, sent, calls, raw, ok, errs, verdicts>>

\* arxiv_search raised: the exception leaves run_topic_agent
SearchRaises ==
    /\ pc = "search"
    /\ pc' = "search_failed"
    /\ UNCHANGED <<mode, subject, trace_id, papers, prompt, sent, attempt, calls, raw, out,
                   ok, errs, verdicts, last_errors, trace>>

\* run_pdf_agent(pdf_name, pdf_text): start event, prompt, the loop begins
StartPdf ==
    /\ pc = "idle"
    /\ \E tid \in TraceIds, pdf_name \in PdfNames, pdf_text \in PdfTexts :
          /\ trace_id' = tid
          /\ subject' = pdf_name
          /\ prompt' = BuildPdfPrompt(pdf_text)
    /\ mode' = "pdf"
    /\ trace' = write_trace(trace, Event("start", 0, FALSE, <<>>))
    /\ last_errors' = <<>>
    /\ out' = EmptyDict
    /\ attempt' = 1
    /\ pc' = "loop"
    /\ UNCHANGED <<papers, sent, calls, raw, ok, errs, verdicts>>

\* top of the loop body: the llm_call event, then llm_json is called
LlmCall ==
    /\ pc = "loop"
    /\ trace' = write_trace(trace, Event("llm_call", attempt, FALSE, <<>>))
    /\ sent' = Append(sent, prompt)
    /\ calls' = calls + 1
    /\ pc' = "llm"
    /\ UNCHANGED <<mode, subject, trace_id, papers, prompt, attempt, raw, out, ok, errs, verdicts,
                   last_errors>>

\* llm_json returned the parsed answer
LlmReturns ==
    /\ pc = "llm"
    /\ \E r \in RawOutputs : raw' = r
    /\ pc' = "harden"
    /\ UNCHANGED <<mode, subject, trace_id, papers, prompt, sent, attempt, calls, out, ok,
                   errs, verdicts, last_errors, trace>>

\* llm_json raised (no key, network, unparsable content)
\* variant of LlmRaises: the failed generation call is made again
LlmRaisesRetried ==
    /\ pc = "llm"
    /\ pc' = "loop"
    /\ UNCHANGED <<mode, subject, trace_id, papers, prompt, sent, attempt, calls, raw, out,
                   ok, errs, verdicts, last_errors, trace>>
LlmRaises ==
    /\ pc = "llm"
    /\ pc' = "llm_failed"
    /\ UNCHANGED <<mode, subject, trace_id, papers, prompt, sent, attempt, calls, raw, out,
                   ok, errs, verdicts, last_errors, trace>>

Harden ==
    /\ pc = "harden"
    /\ out' = _ensure_output_hardened(raw, trace_id, mode, subject, subject)
    /\ pc' = "coerce"
    /\ UNCHANGED <<mode, subject, trace_id, papers, prompt, sent, attempt, calls, raw, ok,
                   errs, verdicts, last_errors, trace>>

Coerce ==
    /\ pc = "coerce"
    /\ LET r == _coerce_to_schema_shape(out, mode)
       IN  IF IsRaise(r)
           THEN pc' = "raised" /\ out' = out
           ELSE pc' = "quality" /\ out' = r
    /\ UNCHANGED <<mode, subject, trace_id, papers, prompt, sent, attempt, calls, raw, ok,
                   errs, verdicts, last_errors, trace>>

EnsureQuality ==
    /\ pc = "quality"
    /\ out' = _ensure_quality_required_fields_before_validate(out)
    /\ pc' = "validate"
    /\ UNCHANGED <<mode, subject, trace_id, papers, prompt, sent, attempt, calls, raw, ok,
                   errs, verdicts, last_errors, trace>>

Validate ==
    /\ pc = "validate"
    /\ LET r == validate_json(out, OUTPUT_SCHEMA_V1)
       IN  ok' = r.ok /\ errs' = r.msgs /\ verdicts' = Append(verdicts, r.ok)
    /\ pc' = "annotate"
    /\ UNCHANGED <<mode, subject, trace_id, papers, prompt, sent, attempt, calls, raw, out,
                   last_errors, trace>>

\* schema_valid and self_checks are rewritten, then the validate event
Annotate ==
    /\ pc = "annotate"
    /\ \E o2 \in UnionSelfChecks(SetSchemaValid(out, ok)) :
          IF IsRaise(o2)
          THEN /\ out' = SetSchemaValid(out, ok)
               /\ pc' = "raised"
               /\ trace' = trace
          ELSE /\ out' = o2
               /\ pc' = "branch"
               /\ trace' = write_trace(trace,
                               Event("validate", attempt, ok, Take(errs, MaxNoted)))
    /\ UNCHANGED <<mode, subject, trace_id, papers, prompt, sent, attempt, calls, raw, ok,
                   errs, verdicts, last_errors>>

\* if ok: the done event, return out
ReturnValid ==
    /\ pc = "branch"
    /\ ok
    /\ trace' = write_trace(trace, Event("done", 0, FALSE, <<>>))
    /\ pc' = "done"
    /\ UNCHANGED <<mode, subject, trace_id, papers, prompt, sent, attempt, calls, raw, out,
                   ok, errs, verdicts, last_errors>>

\* not ok: remember the errors, augment the prompt, next iteration or loop end
Retry ==
    /\ pc = "branch"
    /\ ~ok
    /\ last_errors' = errs
    /\ prompt' = AugmentPrompt(prompt, errs)
    /\ IF attempt < MaxAttempts
       THEN attempt' = attempt + 1 /\ pc' = "loop"
       ELSE attempt' = attempt /\ pc' = "exhausted"
    /\ UNCHANGED <<mode, subject, trace_id, papers, sent, calls, raw, out, ok, errs, verdicts, trace>>

\* after the loop: the best-effort return
BestEffort ==
    /\ pc = "exhausted"
    /\ out' = BestEffortDocument(out, last_errors)
    /\ trace' = write_trace(trace, Event("done_with_errors", 0, FALSE, <<>>))
    /\ pc' = "done_with_errors"
    /\ UNCHANGED <<mode, subject, trace_id, papers, prompt, sent, attempt, calls, raw, ok,
                   errs, verdicts, last_errors>>

Next ==
    \/ StartTopic
    \/ SearchReturns
    \/ SearchRaises
    \/ StartPdf
    \/ LlmCall
    \/ LlmReturns
    \/ LlmRaises
    \/ Harden
    \/ Coerce
    \/ EnsureQuality
    \/ Validate
    \/ Annotate
    \/ ReturnValid
    \/ Retry
    \/ BestEffort

Spec == Init /\ [][Next]_vars

(***************************************************************************)
(* _coerce_to_schema_shape on its own: the documents it is applied to,     *)
(* one application, and a second application to its own result             *)
(***************************************************************************)
MaxRun == 6

Absent == [Blank EXCEPT !.k = "absent"]
Modes == {"topic", "pdf"}

\* lists made of a run of one entry followed by a run of another
RunLengths == 0..MaxRun
TailLengths == {0, 1, MaxRun}
ListsOf(Entries) ==
    {List(Rep(x, n) \o Rep(y, m)) :
        x \in Entries, n \in RunLengths, y \in Entries, m \in TailLengths}
ShapesOf(Entries) ==
    {Absent, Null, Str("Do X"), IntV(5), Dict([text |-> Str("Do X")])}
    \cup ListsOf(Entries)

ActionEntries ==
    {Str("Do X"), IntV(1),
     Dict([action |-> Str("A"), priority |-> Str("HIGH")]),
     Dict([priority |-> Str("urgent")]),
     Dict([action |-> Str("A"), priority |-> IntV(3)])}
StepEntries ==
    {Str("Run eval"), IntV(1), Dict([task |-> Str("T")]), Dict([why |-> Null])}
YearValues ==
    {Absent, Null, Bool(TRUE), IntV(2020), IntV(-1), FloatV(20200), FloatV(20205),
     FloatV(-15), Inf(1), Inf(-1), NaN, Str("2020"), Str("n/a"), Str("U+00B2"),
     Str("")}
WorkWithYear(y) ==
    IF y = Absent THEN Dict([title |-> Str("T")])
    ELSE Dict([title |-> Str("T"), year |-> y])
WorkEntries ==
    {IntV(1), EmptyDict,
     Dict([title |-> Str("T"), year |-> Str("2020"), relevance_reason |-> Str("R")]),
     Dict([year |-> IntV(-1), key_contribution |-> IntV(0)])}

\* a document with the given fields; an Absent field has no key
RECURSIVE WithFields(_, _, _)
WithFields(d, keys, vals) ==
    IF keys = <<>> THEN d
    ELSE WithFields(IF Head(vals) = Absent THEN d ELSE Put(d, Head(keys), Head(vals)),
                    Tail(keys), Tail(vals))
Fields == <<"action_items", "reproduction_checklist", "related_works">>
Doc(ai, rc, rw, inp) == WithFields(EmptyDict, Fields \o <<"input">>, <<ai, rc, rw, inp>>)
Under(ai, rc, rw, cand) ==
    WithFields(Dict([mode |-> Str("topic")]), Fields \o <<"candidate_papers">>,
               <<ai, rc, rw, cand>>)

SmallShapes(Entries) ==
    {Absent, List(<<>>)} \cup {List(<<x>>) : x \in Entries}
CandidateShapes ==
    {Absent, Str("none"), List(<<>>), List(<<IntV(1)>>),
     List(Rep(WorkWithYear(IntV(1999)), MaxRun))}
    \cup {List(<<WorkWithYear(y)>>) : y \in YearValues}
WorkShapes ==
    ShapesOf(WorkEntries) \cup {List(<<WorkWithYear(y)>>) : y \in YearValues}

CoerceInputs ==
    \* each field in every shape, at the top level and under input
    {Doc(ai, Absent, Absent, inp) :
        ai \in ShapesOf(ActionEntries), inp \in {Absent, Str("topic")}}
    \cup {Doc(top, Absent, Absent, Under(ai, Absent, Absent, Absent)) :
             ai \in ShapesOf(ActionEntries), top \in {Absent, List(<<>>)}}
    \cup {Doc(Absent, rc, Absent, Absent) : rc \in ShapesOf(StepEntries)}
    \cup {Doc(Absent, top, Absent, Under(Absent, rc, Absent, Absent)) :
             rc \in ShapesOf(StepEntries), top \in {Absent, Null}}
    \cup {Doc(Absent, Absent, rw, Absent) : rw \in WorkShapes}
    \cup {Doc(Absent, Absent, Absent, Under(Absent, Absent, rw, Absent)) :
             rw \in WorkShapes}
    \* related_works against input.candidate_papers
    \cup {Doc(Absent, Absent, rw, Under(Absent, Absent, Absent, cand)) :
             rw \in SmallShapes(WorkEntries) \cup {Null, Str("Some paper"),
                                                   List(Rep(IntV(1), 2))},
             cand \in CandidateShapes}
    \* the fields together
    \cup {Doc(ai, rc, rw, inp) :
             ai \in SmallShapes(ActionEntries), rc \in SmallShapes(StepEntries),
             rw \in SmallShapes(WorkEntries),
             inp \in {Absent, Dict([mode |-> Str("pdf")])}}

InitCoerce ==
    /\ pc = "c_input"
    /\ mode \in Modes
    /\ raw \in CoerceInputs
    /\ out = raw
    /\ subject = "none"
    /\ trace_id = "none"
    /\ papers = <<>>
    /\ prompt = <<>>
    /\ sent = <<>>
    /\ attempt = 0
    /\ calls = 0
    /\ ok = FALSE
    /\ errs = <<>>
    /\ verdicts = <<>>
    /\ last_errors = <<>>
    /\ trace = <<>>

CoerceOnce ==
    /\ pc = "c_input"
    /\ out' = _coerce_to_schema_shape(raw, mode)
    /\ pc' = "c_once"
    /\ UNCHANGED <<mode, subject, trace_id, papers, prompt, sent, attempt, calls, raw,
                   ok, errs, verdicts, last_errors, trace>>

CoerceAgain ==
    /\ pc = "c_once"
    /\ ~IsRaise(out)
    /\ out' = _coerce_to_schema_shape(out, mode)
    /\ pc' = "c_twice"
    /\ UNCHANGED <<mode, subject, trace_id, papers, prompt, sent, attempt, calls, raw,
                   ok, errs, verdicts, last_errors, trace>>

NextCoerce ==
    \/ CoerceOnce
    \/ CoerceAgain

SpecCoerce == InitCoerce /\ [][NextCoerce]_vars

(***************************************************************************)
(* Properties of _coerce_to_schema_shape (under SpecCoerce)                *)
(***************************************************************************)
\* out is the result of an application that returned
Coerced == pc \in {"c_once", "c_twice"} /\ ~IsRaise(out)

ActionItemsShaped(o) ==
    LET ai == Get(o, "action_items")
    IN  /\ Has(o, "action_items")
        /\ IsList(ai)
        /\ Len(ai.q) = 5
        /\ \A i \in DOMAIN ai.q :
              /\ IsDict(ai.q[i])
              /\ Has(ai.q[i], "priority")
              /\ Get(ai.q[i], "priority").k = "str"
              /\ Get(ai.q[i], "priority").s \in Priorities

ChecklistShaped(o) ==
    LET rc == Get(o, "reproduction_checklist")
    IN  /\ Has(o, "reproduction_checklist")
        /\ IsList(rc)
        /\ Len(rc.q) >= 5
        /\ Len(rc.q) <= 10

RelatedWorksCounted(o) ==
    LET rw == Get(o, "related_works")
    IN  /\ Has(o, "related_works")
        /\ IsList(rw)
        /\ Len(rw.q) >= 3
        /\ Len(rw.q) <= 5

RelatedWorksShaped(o) ==
    /\ RelatedWorksCounted(o)
    /\ \A i \in DOMAIN Get(o, "related_works").q :
          LET e == Get(o, "related_works").q[i]
          IN  /\ IsDict(e)
              /\ {"title", "year", "url", "key_contribution"} \subseteq DOMAIN e.f

\* C4: for every input, the result of _coerce_to_schema_shape has action_items
\* as a list of exactly 5 entries, each a mapping whose priority is one of
\* high, medium, low.
C4_ActionItemsExactlyFive == Coerced => ActionItemsShaped(out)

\* C5: for every input, the result of _coerce_to_schema_shape has
\* reproduction_checklist as a list of at least 5 and at most 10 entries.
C5_ChecklistFiveToTen == Coerced => ChecklistShaped(out)

\* C6: for every input, the result of _coerce_to_schema_shape has related_works
\* as a list of 3 to 5 entries, every entry a mapping that has the keys title,
\* year, url and key_contribution.
C6_RelatedWorksThreeToFiveWithKeys == Coerced => RelatedWorksShaped(out)

\* C7: coercion is idempotent: applying _coerce_to_schema_shape to its own
\* result changes no field.
C7_CoerceIdempotent == [][pc = "c_once" => out' = out]_vars

(***************************************************************************)
(* Properties of a run (under Spec)                                        *)
(***************************************************************************)
Returned == pc \in {"done", "done_with_errors"}
\* the run is over: it returned, or an exception left it
Ended == pc \in {"done", "done_with_errors", "raised", "search_failed", "llm_failed"}
Last(s) == s[Len(s)]
Flag(o) == Get(Get(o, "quality"), "schema_valid")
AugmentedSent == {i \in DOMAIN sent : Len(sent[i]) > 1}

\* C1: whatever the generation call returned, no step of the run raises: an
\* exception leaves the run only when the search or the generation call
\* itself raised.
C1_NoRaiseOnGeneratorOutput == pc # "raised"

\* C2: at most 2 generation calls, one per attempt in sequence; attempt 1 is
\* made in every run that got past the search; attempt 2 is made if and only
\* if attempt 1's validation failed; a run whose attempt validates returns
\* Done without another call; a run whose attempt 2 fails validation ends in
\* DoneWithErrors.
C2_AttemptDiscipline ==
    /\ calls <= 2
    /\ Len(verdicts) <= calls
    /\ calls <= Len(verdicts) + 1
    /\ (Ended /\ pc # "search_failed") => calls >= 1
    /\ calls = 2 => (Len(verdicts) >= 1 /\ ~verdicts[1])
    /\ (Ended /\ Len(verdicts) >= 1 /\ ~verdicts[1]) => calls = 2
    /\ (Ended /\ Len(verdicts) >= 1 /\ Last(verdicts))
          => (pc = "done" /\ calls = Len(verdicts))
    /\ (Ended /\ Len(verdicts) = 2 /\ ~verdicts[2]) => pc = "done_with_errors"

\* C3 as stated: in a returned document quality.schema_valid is the boolean
\* the most recent validate_json call returned, it is true exactly on the
\* Valid branch, and the document as returned is valid exactly when the flag
\* says so.
C3_FlagIsValidityOfReturned ==
    Returned =>
       /\ Flag(out) = Bool(Last(verdicts))
       /\ (Flag(out).b <=> pc = "done")
       /\ (Flag(out).b <=> validate_json(out, OUTPUT_SCHEMA_V1).ok)

\* C3 amended: in a returned document quality.schema_valid is the boolean the
\* most recent validate_json call returned, it is true exactly on the Valid
\* branch, and a document returned with the flag true is valid as returned
\* (a document returned with the flag false may be valid as returned).
C3_FlagIsLastVerdict ==
    Returned =>
       /\ Flag(out) = Bool(Last(verdicts))
       /\ (Flag(out).b <=> pc = "done")
       /\ (Flag(out).b => validate_json(out, OUTPUT_SCHEMA_V1).ok)

\* a run that returned Done on its second attempt, the flag rewritten to true
C3_Witness ==
    /\ pc = "done"
    /\ attempt = 2
    /\ Flag(out) = Bool(TRUE)
    /\ verdicts = <<FALSE, TRUE>>

\* a returned document that is flagged invalid and is valid as returned
C3_FlaggedInvalidButValid ==
    /\ pc = "done_with_errors"
    /\ Flag(out) = Bool(FALSE)
    /\ validate_json(out, OUTPUT_SCHEMA_V1).ok

\* C8: when both attempts fail validation, the returned document has
\* schema_valid false, notes made of the fixed prefix and the first (at most
\* 8) error messages of the second attempt's validation, action_items of
\* exactly 5 entries, reproduction_checklist of 5 to 10 and related_works of
\* 3 to 5.
C8_ExhaustedDocument ==
    pc = "done_with_errors" =>
       /\ verdicts = <<FALSE, FALSE>>
       /\ Flag(out) = Bool(FALSE)
       /\ LET notes == Get(Get(out, "quality"), "notes")
          IN  /\ notes.k = "text"
              /\ notes.s # ""
              /\ Len(notes.q) <= 8
              /\ Len(notes.q) <= Len(errs)
              /\ \A i \in DOMAIN notes.q : notes.q[i] = errs[i]
       /\ LET ai == Get(out, "action_items")
          IN  IsList(ai) /\ Len(ai.q) = 5
       /\ ChecklistShaped(out)
       /\ RelatedWorksCounted(out)

\* the minimal hardening guarantees on a document
Hardened(o) ==
    /\ Get(o, "trace_id") = Str(trace_id)
    /\ IsDict(Get(o, "input"))
    /\ Has(Get(o, "input"), "mode")
    /\ IsDict(Get(o, "quality"))
    /\ IsList(Get(Get(o, "quality"), "self_checks"))
\* C9: every returned document carries the trace id the orchestrator assigned
\* at the start of the run, an input mapping with a mode key, and a quality
\* mapping whose self_checks is a list; from hardening on, no step changes
\* the trace id.
C9_ReturnedIsHardened ==
    /\ Returned => Hardened(out)
    /\ pc \in {"coerce", "quality", "validate", "annotate", "branch", "exhausted"}
          => Get(out, "trace_id") = Str(trace_id)

\* a returned document whose generator answer carried another trace id
C9_Witness ==
    /\ Returned
    /\ IsDict(raw)
    /\ Has(raw, "trace_id")
    /\ Get(raw, "trace_id") # Str(trace_id)

\* C10: the first prompt sent is never augmented; the second prompt sent is
\* the first one plus one block listing the first (at most 12) error messages
\* of attempt 1's validation in the validator's order; a run whose attempt 1
\* fails validation sends exactly one augmented prompt and a run whose
\* attempt 1 validates sends none.
C10_RetryPrompt ==
    /\ Len(sent) >= 1 => Len(sent[1]) = 1
    /\ Len(sent) >= 2 =>
          /\ Len(sent[2]) = 2
          /\ sent[2][1] = sent[1][1]
          /\ sent[2][2].block = "errors then fix"
          /\ Len(sent[2][2].msgs) <= 12
    /\ (pc = "llm" /\ attempt = 2) =>
          /\ Len(sent[2][2].msgs) = Min(12, Len(last_errors))
          /\ \A i \in DOMAIN sent[2][2].msgs : sent[2][2].msgs[i] = last_errors[i]
    /\ (Ended /\ Len(verdicts) >= 1 /\ ~verdicts[1]) => Cardinality(AugmentedSent) = 1
    /\ (Ended /\ Len(verdicts) >= 1 /\ verdicts[1]) => Cardinality(AugmentedSent) = 0

\* the self_checks of a document, and what the union makes of them
SelfChecks(o) == Get(Get(o, "quality"), "self_checks")
NoDuplicates(q) == \A i, j \in DOMAIN q : i # j => q[i] # q[j]
Labelled(o) ==
    /\ IsList(SelfChecks(o))
    /\ \E i \in DOMAIN SelfChecks(o).q : SelfChecks(o).q[i] = Str("json_schema_v1")
    /\ NoDuplicates(SelfChecks(o).q)
\* the document validate_json is called on in this attempt
Prepared ==
    _ensure_quality_required_fields_before_validate(
        _coerce_to_schema_shape(
            _ensure_output_hardened(raw, trace_id, mode, subject, subject), mode))

\* C11 as stated: at the moment validate_json is called on an attempt's
\* document, quality.self_checks already contains "json_schema_v1" and holds
\* no duplicates.
C11_LabelledBeforeValidation == pc = "validate" => Labelled(out)

\* C11 amended: within each attempt the steps run in the order Generate,
\* Harden, Coerce, ensure the required quality fields, Validate, and only then
\* schema_valid and self_checks are rewritten; at the moment validate_json is
\* called quality.self_checks is a list (as hardening left it), and once the
\* rewrite after validation has been made it contains "json_schema_v1" and
\* holds no duplicates.
C11_LabelledAfterValidation ==
    /\ pc \in {"harden", "coerce", "quality", "validate"} => Len(verdicts) = calls - 1
    /\ pc = "validate" => (out = Prepared /\ IsList(SelfChecks(out)))
    /\ pc \in {"annotate", "branch"} => Len(verdicts) = calls
    /\ pc = "branch" =>
          /\ Labelled(out)
          /\ out \in UnionSelfChecks(SetSchemaValid(Prepared, Last(verdicts)))

\* an attempt whose answer repeated the label: not yet deduplicated when
\* validated, deduplicated after the rewrite
C11_Witness ==
    /\ pc = "branch"
    /\ IsDict(raw)
    /\ IsDict(Get(raw, "quality"))
    /\ IsList(SelfChecks(raw))
    /\ ~NoDuplicates(SelfChecks(raw).q)
    /\ ~Labelled(Prepared)
    /\ Labelled(out)

\* the related_works the coercer is given, at the top level or under input
GivenRelatedWorks(d) ==
    IF Has(d, "related_works") THEN Get(d, "related_works")
    ELSE IF IsDict(Get(d, "input")) /\ Has(Get(d, "input"), "related_works")
         THEN Get(Get(d, "input"), "related_works")
         ELSE Absent
GivenCandidates(d) ==
    IF IsDict(Get(d, "input")) /\ Has(Get(d, "input"), "candidate_papers")
    THEN Get(Get(d, "input"), "candidate_papers")
    ELSE Absent
\* nothing of related_works survives normalisation, and candidates exist
NothingKeptButCandidates(d) ==
    /\ IsDict(d)
    /\ \/ GivenRelatedWorks(d) = Absent
       \/ /\ IsList(GivenRelatedWorks(d))
          /\ OnlyDicts(GivenRelatedWorks(d).q) = <<>>
    /\ IsList(GivenCandidates(d))
    /\ Len(GivenCandidates(d).q) > 0
    /\ AllDict(GivenCandidates(d).q)
NotSentinel(q) == {i \in DOMAIN q : q[i] # Sentinel}

\* C12: when related_works is absent, empty, or a list of non-mappings only,
\* and input.candidate_papers is a non-empty list of mappings, the resulting
\* related_works holds one derived entry per candidate (the first 5 at most),
\* in front, and sentinel entries only to pad it to length 3 (stated of the
\* applications that return).
C12_DerivedFromCandidates ==
    (pc = "c_once" /\ ~IsRaise(out) /\ NothingKeptButCandidates(raw)) =>
        /\ IsDict(out)
        /\ IsList(Get(out, "related_works"))
        /\ LET rw == Get(out, "related_works").q
               n == Min(5, Len(GivenCandidates(raw).q))
           IN  /\ Len(rw) = IF n < 3 THEN 3 ELSE n
               /\ NotSentinel(rw) = 1..n
               /\ \A i \in 1..n :
                     Get(rw[i], "title")
                        = GetD(GivenCandidates(raw).q[i], "title", Str("Unknown title"))

\* the year the rule is stated to give: the value of a non-negative integer,
\* the truncated value of a non-negative float, the numeric value of a
\* digit-only string, 0 otherwise
StatedYear(y) ==
    IF y.k = "int" /\ y.n >= 0 THEN IntV(y.n)
    ELSE IF y.k = "float" /\ y.n >= 0 THEN IntV(y.n \div 10)
    ELSE IF y.k = "str" /\ y.s \in DOMAIN DecimalValue THEN IntV(DecimalValue[y.s])
    ELSE IntV(0)
\* the year values the rule is stated for
StatedYears ==
    {y \in YearValues : y.k \in {"absent", "int", "float", "str"} /\ y # Str("U+00B2")}
YearOfFirst(o) == Get(Get(o, "related_works").q[1], "year")
\* the entry path alone: a mapping entry of related_works
EntryPathYears ==
    \A y \in StatedYears :
        GivenRelatedWorks(raw) = List(<<WorkWithYear(y)>>)
            => YearOfFirst(out) = StatedYear(y)
\* the candidate path alone: an entry derived from input.candidate_papers
CandidatePathYears ==
    \A y \in StatedYears :
        (GivenRelatedWorks(raw) = Absent
         /\ GivenCandidates(raw) = List(<<WorkWithYear(y)>>))
            => YearOfFirst(out) = StatedYear(y)

\* C13: on both related-works paths the output year is a non-negative
\* integer: the value of a non-negative integer, the truncated value of a
\* non-negative float, the numeric value of a digit-only string, and 0 for a
\* negative number, a non-digit string or an absent year (stated of the
\* applications that return).
C13_SameYearRule ==
    (pc = "c_once" /\ ~IsRaise(out)) =>
        /\ EntryPathYears
        /\ CandidatePathYears

\* the run was left by an exception of the search or of the generation call
Failed == pc \in {"search_failed", "llm_failed"}
EndEvents == {i \in DOMAIN trace : trace[i].event \in {"done", "done_with_errors"}}

\* C14: a collaborator failure is propagated and never retried.  If the
\* search raises, no generation call is issued; if the generation call of
\* attempt n raises, that call is the last one, attempt n is not validated and
\* no done / done_with_errors event is written; a failed run stays failed and
\* returns no document; a second generation call is only ever made after a
\* first attempt whose validation failed.
C14_CollaboratorFailurePropagates ==
    /\ [](/\ pc = "search_failed" => (calls = 0 /\ sent = <<>> /\ verdicts = <<>>)
          /\ pc = "llm_failed" =>
                (calls = attempt /\ Len(sent) = attempt /\ Len(verdicts) = attempt - 1)
          /\ Failed => EndEvents = {}
          /\ calls <= Len(verdicts) + 1
          /\ calls >= 2 => (Len(verdicts) >= 1 /\ ~verdicts[1]))
    /\ [][Failed => (pc' = pc /\ calls' = calls /\ verdicts' = verdicts
                      /\ trace' = trace)]_vars

\* the generation call of attempt 2 raised, after attempt 1 failed validation
C14_Witness == pc = "llm_failed" /\ attempt = 2 /\ verdicts = <<FALSE>>

====
